---- MODULE Spec2Model ----
(***************************************************************************)
(* Model of the two CI commands of the repository:                         *)
(*   .dda/extend/commands/github/backport    (API-based backport)          *)
(*   .dda/extend/commands/github/cherry_pick (clone-based cherry-pick)     *)
(*                                                                         *)
(* Text is a sequence of string fragments.  Label names, branch names and  *)
(* ref names are spelled one character per fragment, because the code      *)
(* tests prefixes of them and slices them; the literal parts of message    *)
(* templates are kept as one fragment each.                                *)
(***************************************************************************)
EXTENDS Integers, Sequences, FiniteSets, TLC

(***************************************************************************)
(* Bound of the model: the longest label list of an event.                 *)
(***************************************************************************)
MaxLabels == 2

(***************************************************************************)
(* Text helpers.                                                           *)
(***************************************************************************)
s_backport == <<"b", "a", "c", "k", "p", "o", "r", "t">>
s_slash == <<"/">>
s_dash == <<"-">>
s_to == <<"t", "o">>
s_refs == <<"r", "e", "f", "s">>
s_main == <<"m", "a", "i", "n">>
s_dev == <<"d", "e", "v">>
s_bot == <<"b", "o", "t">>
s_bug == <<"b", "u", "g">>
s_r3 == <<"r", "3">>
s_r4 == <<"r", "4">>
s_EOF == <<"E", "O", "F">>
s_nl == <<"\n">>
s_comma == <<",">>
s_empty == <<>>

\* str.startswith
StartsWith(s, p) == Len(s) >= Len(p) /\ SubSeq(s, 1, Len(p)) = p

\* position of the first occurrence of the one-fragment text c in s, 0 if none
FirstIndex(s, c) ==
  IF \E i \in 1..Len(s) : s[i] = c
  THEN CHOOSE i \in 1..Len(s) : s[i] = c /\ \A j \in 1..(i - 1) : s[j] # c
  ELSE 0

\* name.split("/", 1)[1], for a name that contains "/"
SplitOnceSecond(s) == SubSeq(s, FirstIndex(s, "/") + 1, Len(s))

\* Python truthiness of a text value ("" is falsy)
Truthy(s) == Len(s) > 0

Digit(d) == <<"0", "1", "2", "3", "4", "5", "6", "7", "8", "9">>[d + 1]

\* the decimal text an f-string produces for a non-negative integer
RECURSIVE IntToStr(_)
IntToStr(n) == IF n < 10 THEN <<Digit(n)>> ELSE IntToStr(n \div 10) \o <<Digit(n % 10)>>

\* sep.join(items)
RECURSIVE Join(_, _)
Join(sep, items) ==
  IF Len(items) = 0 THEN <<>>
  ELSE IF Len(items) = 1 THEN items[1]
  ELSE items[1] \o sep \o Join(sep, Tail(items))

\* s occurs in t as a contiguous run of fragments
Contains(t, s) ==
  \E i \in 0..(Len(t) - Len(s)) : SubSeq(t, i + 1, i + Len(s)) = s

(***************************************************************************)
(* Python values that the two label filters return: a label record (dict), *)
(* a text, a list, or None.                                                *)
(***************************************************************************)
PyNone == [type |-> "none", val |-> <<>>]
PyStr(s) == [type |-> "str", val |-> s]
PyDict(label) == [type |-> "dict", val |-> label.name]
PyList(items) == [type |-> "list", val |-> items]

(***************************************************************************)
(* Label helpers of backport/__init__.py.                                  *)
(***************************************************************************)
\* variant: the loop does not return at the first match, the last match wins
RECURSIVE backport_find_backport_target_last(_)
backport_find_backport_target_last(labels) ==
  IF Len(labels) = 0 THEN PyNone
  ELSE LET name == Head(labels).name
           later == backport_find_backport_target_last(Tail(labels)) IN
       IF later # PyNone THEN later
       ELSE IF Truthy(name) /\ StartsWith(name, s_backport \o s_slash)
            THEN PyStr(SplitOnceSecond(name))
       ELSE PyNone

RECURSIVE backport_find_backport_target(_)
backport_find_backport_target(labels) ==
  IF Len(labels) = 0 THEN PyNone
  ELSE LET name == Head(labels).name IN
       IF ~Truthy(name) THEN backport_find_backport_target(Tail(labels))
       ELSE IF StartsWith(name, s_backport \o s_slash) THEN PyStr(SplitOnceSecond(name))
       ELSE backport_find_backport_target(Tail(labels))

\* returns the label records themselves, and keeps records with an empty name
RECURSIVE backport_get_non_backport_labels(_)
backport_get_non_backport_labels(labels) ==
  IF Len(labels) = 0 THEN <<>>
  ELSE IF ~StartsWith(Head(labels).name, s_backport \o s_slash)
       THEN <<PyDict(Head(labels))>> \o backport_get_non_backport_labels(Tail(labels))
       ELSE backport_get_non_backport_labels(Tail(labels))

\* variant: the base branch is not compared
is_pr_merged_in_any_base(pr, base_branch) == pr.merged

is_pr_merged_in(pr, base_branch) == pr.merged /\ pr.base_ref = base_branch

(***************************************************************************)
(* Label helpers of cherry_pick/__init__.py.                               *)
(***************************************************************************)
RECURSIVE cherry_pick_find_backport_target(_)
cherry_pick_find_backport_target(labels) ==
  IF Len(labels) = 0 THEN PyNone
  ELSE LET name == Head(labels).name IN
       IF ~Truthy(name) THEN cherry_pick_find_backport_target(Tail(labels))
       ELSE IF StartsWith(name, s_backport \o s_slash) THEN PyStr(SplitOnceSecond(name))
       ELSE cherry_pick_find_backport_target(Tail(labels))

\* returns label names, and drops empty names
RECURSIVE cherry_pick_get_non_backport_labels(_)
cherry_pick_get_non_backport_labels(labels) ==
  IF Len(labels) = 0 THEN <<>>
  ELSE LET name == Head(labels).name IN
       IF ~Truthy(name) THEN cherry_pick_get_non_backport_labels(Tail(labels))
       ELSE IF StartsWith(name, s_backport \o s_slash)
            THEN cherry_pick_get_non_backport_labels(Tail(labels))
       ELSE <<PyStr(name)>> \o cherry_pick_get_non_backport_labels(Tail(labels))

(***************************************************************************)
(* Inputs: the process environment and the webhook event file.             *)
(***************************************************************************)
s_sha == <<"a", "b", "c", "1", "2", "3">>
s_fix == <<"f", "i", "x">>

Commands == {"backport", "cherry_pick"}

\* running_in_ci() and the presence of the three environment variables
Envs == [ci : BOOLEAN, GITHUB_EVENT_PATH : BOOLEAN, GITHUB_TOKEN : BOOLEAN,
         GITHUB_OUTPUT : BOOLEAN]

LabelNames == {s_empty, s_bug, s_backport \o s_slash \o s_r3,
               s_backport \o s_slash \o s_r4, s_backport \o s_slash}

RECURSIVE SeqsUpTo(_, _)
SeqsUpTo(S, n) ==
  IF n = 0 THEN {<<>>}
  ELSE LET shorter == SeqsUpTo(S, n - 1) IN
       shorter \cup {Append(q, x) : q \in {r \in shorter : Len(r) = n - 1}, x \in S}

LabelLists == SeqsUpTo([name : LabelNames], MaxLabels)

\* an absent body, a two-line body, and bodies with a line that reads EOF
Bodies == {s_empty, <<"a">> \o s_nl \o <<"a">>, <<"a">> \o s_nl \o s_EOF, s_EOF}
Titles == {s_fix, s_EOF}
PRNumbers == {7, 42}

\* the fields of the event that cmd reads; an absent or empty
\* merge_commit_sha is the empty text
PullRequests == [has_pr : {TRUE}, merged : BOOLEAN, merge_commit_sha : {s_empty, s_sha},
                 base_ref : {s_main, s_dev}, number : PRNumbers, labels : LabelLists,
                 title : Titles, body : Bodies]

NoPullRequest == [has_pr |-> FALSE, merged |-> FALSE, merge_commit_sha |-> s_empty,
                  base_ref |-> s_empty, number |-> 0, labels |-> <<>>,
                  title |-> s_empty, body |-> s_empty]

Events == PullRequests \cup {NoPullRequest}

(***************************************************************************)
(* The remote repository as the lookups of the API path see it.            *)
(***************************************************************************)
\* repo.get_git_ref("heads/<target>").object.sha
target_head_sha(branch) == <<"h", "e", "a", "d", ":">> \o branch
\* repo.get_commit(sha).commit.tree.sha
tree_sha(sha) == <<"t", "r", "e", "e", ":">> \o sha
\* repo.get_commit(sha).commit.message and .author
commit_message(sha) == <<"m", "s", "g", ":">> \o sha
commit_author(sha) == <<"a", "u", "t", "h", "o", "r", ":">> \o sha
\* the sha the host gives to the commit made by create_git_commit
new_commit_sha == <<"n", "e", "w">>

(***************************************************************************)
(* State.                                                                  *)
(***************************************************************************)
VARIABLES
  command,      \* which of the two cmd functions runs
  env,          \* the process environment
  event,        \* the loaded event (NoPullRequest until get_event has run)
  pc,           \* position in cmd, or how cmd ended
  failure,      \* the call or variable whose failure ended the run, "none" otherwise
  target,       \* target_branch_name / base
  head,         \* backport_branch_name / head
  messages,     \* what cmd reported through app.display*, app.abort
  calls,        \* remote API calls made, in order
  commits,      \* commits created on the remote host
  refs,         \* refs created on the remote host
  pulls,        \* pull requests opened
  label_calls,  \* argument lists that add_to_labels was called with
  git,          \* git subprocesses run, in order
  output        \* text appended to the GITHUB_OUTPUT file

vars == <<command, env, event, pc, failure, target, head, messages, calls,
          commits, refs, pulls, label_calls, git, output>>

remote_vars == <<calls, commits, refs, pulls, label_calls>>
local_vars == <<git, output>>

Init ==
  /\ command \in Commands
  /\ env \in Envs
  /\ event = NoPullRequest
  /\ pc = "ci"
  /\ failure = "none"
  /\ target = s_empty
  /\ head = s_empty
  /\ messages = <<>>
  /\ calls = <<>>
  /\ commits = <<>>
  /\ refs = <<>>
  /\ pulls = <<>>
  /\ label_calls = <<>>
  /\ git = <<>>
  /\ output = <<>>

Msg(level, text) == [level |-> level, text |-> text]

\* cmd reports a message and returns
Report(level, text) ==
  /\ messages' = Append(messages, Msg(level, text))
  /\ pc' = "returned"

\* an exception leaves cmd uncaught
Raise(what) ==
  /\ pc' = "raised"
  /\ failure' = what

(***************************************************************************)
(* backport/__init__.py : cmd                                              *)
(***************************************************************************)
\* variant: the branch is named as the clone-based command names it
backport_branch_name_flat(target_branch_name, original_pr_number) ==
  s_backport \o s_dash \o IntToStr(original_pr_number) \o s_dash \o s_to \o s_dash
    \o target_branch_name

backport_branch_name(target_branch_name, original_pr_number) ==
  s_backport \o s_slash \o target_branch_name \o s_slash \o s_backport \o s_dash
    \o IntToStr(original_pr_number) \o s_dash \o s_to \o s_dash \o target_branch_name

backport_ref(branch_name) == s_refs \o s_slash \o branch_name

backport_title(target_branch_name, title) ==
  <<"[Backport ">> \o target_branch_name \o <<"] ">> \o title

backport_body(merge_commit_sha, original_pr_number, original_body) ==
  <<"Backport ">> \o merge_commit_sha \o <<" from #">> \o IntToStr(original_pr_number)
    \o <<".\n\n___\n\n">> \o original_body

\* the one-element list that cmd unpacks into add_to_labels
backport_labels(labels) ==
  <<PyList(backport_get_non_backport_labels(labels) \o <<PyStr(s_backport), PyStr(s_bot)>>)>>

\* the commit that create_git_commit makes
backport_commit(merge_commit_sha, target_branch_name) ==
  [sha |-> new_commit_sha,
   message |-> commit_message(merge_commit_sha),
   tree |-> tree_sha(merge_commit_sha),
   parents |-> <<target_head_sha(target_branch_name)>>,
   author |-> commit_author(merge_commit_sha)]

BackportCheckCI ==
  /\ command = "backport" /\ pc = "ci"
  /\ IF ~env.ci
     THEN Report("error", <<"This command is meant to be run in CI, not locally.">>)
     ELSE pc' = "get_event" /\ UNCHANGED messages
  /\ UNCHANGED <<command, env, event, failure, target, head, remote_vars, local_vars>>

BackportGetEvent ==
  /\ command = "backport" /\ pc = "get_event"
  /\ IF ~env.GITHUB_EVENT_PATH
     THEN Raise("GITHUB_EVENT_PATH") /\ UNCHANGED event
     ELSE \E e \in Events : event' = e /\ pc' = "pull_request" /\ UNCHANGED failure
  /\ UNCHANGED <<command, env, target, head, messages, remote_vars, local_vars>>

BackportCheckPullRequest ==
  /\ command = "backport" /\ pc = "pull_request"
  /\ IF ~event.has_pr
     THEN Report("error", <<"No pull_request found. Skipping backport.">>)
     ELSE pc' = "merged" /\ UNCHANGED messages
  /\ UNCHANGED <<command, env, event, failure, target, head, remote_vars, local_vars>>

BackportCheckMerged ==
  /\ command = "backport" /\ pc = "merged"
  /\ IF ~is_pr_merged_in(event, s_main) \/ ~Truthy(event.merge_commit_sha)
     THEN Report("error", <<"For security reasons, this action should only run on merged PRs.">>)
     ELSE pc' = "find_target" /\ UNCHANGED messages
  /\ UNCHANGED <<command, env, event, failure, target, head, remote_vars, local_vars>>

BackportFindTarget ==
  /\ command = "backport" /\ pc = "find_target"
  /\ LET found == backport_find_backport_target(event.labels) IN
     IF found = PyNone \/ ~Truthy(found.val)
     THEN /\ Report("error", <<"No backport/<target> label found. Skipping backport.">>)
          /\ UNCHANGED target
     ELSE /\ target' = found.val
          /\ messages' = Append(messages, Msg("display",
               <<"Backport #">> \o IntToStr(event.number) \o <<" to target branch: ">> \o found.val))
          /\ pc' = "get_repo"
  /\ UNCHANGED <<command, env, event, failure, head, remote_vars, local_vars>>

\* a lookup outside any try block: an exception leaves cmd
BackportLookup(here, call, next) ==
  /\ command = "backport" /\ pc = here
  /\ calls' = Append(calls, call)
  /\ \E ok \in BOOLEAN :
       IF ok THEN pc' = next /\ UNCHANGED failure ELSE Raise(call)
  /\ UNCHANGED <<command, env, event, target, head, messages, commits, refs, pulls,
                 label_calls, local_vars>>

BackportGetRepo == BackportLookup("get_repo", "get_repo", "get_branch")

BackportGetBranch ==
  /\ command = "backport" /\ pc = "get_branch"
  /\ calls' = Append(calls, "get_branch")
  /\ \E ok \in BOOLEAN :
       IF ok
       THEN pc' = "get_git_ref" /\ UNCHANGED <<failure, messages>>
       ELSE /\ Report("error", <<"Target branch '">> \o target
                        \o <<"' does not exist or cannot be accessed: ">> \o <<"<e>">>)
            /\ failure' = "get_branch"
  /\ UNCHANGED <<command, env, event, target, head, commits, refs, pulls, label_calls,
                 local_vars>>

BackportGetGitRef == BackportLookup("get_git_ref", "get_git_ref", "get_git_commit")

BackportGetGitCommit == BackportLookup("get_git_commit", "get_git_commit", "get_commit")

BackportGetCommit == BackportLookup("get_commit", "get_commit", "get_git_tree")

BackportGetGitTree == BackportLookup("get_git_tree", "get_git_tree", "create_git_commit")

BackportCreateGitCommit ==
  /\ command = "backport" /\ pc = "create_git_commit"
  /\ calls' = Append(calls, "create_git_commit")
  /\ \E ok \in BOOLEAN :
       IF ok
       THEN /\ commits' = Append(commits, backport_commit(event.merge_commit_sha, target))
            /\ pc' = "create_git_ref"
            /\ UNCHANGED failure
       ELSE Raise("create_git_commit") /\ UNCHANGED commits
  /\ UNCHANGED <<command, env, event, target, head, messages, refs, pulls, label_calls,
                 local_vars>>

\* variant: the except block of create_git_ref does not return
BackportCreateGitRef_no_return ==
  /\ command = "backport" /\ pc = "create_git_ref"
  /\ head' = backport_branch_name(target, event.number)
  /\ calls' = Append(calls, "create_git_ref")
  /\ pc' = "create_pull"
  /\ \E ok \in BOOLEAN :
       IF ok
       THEN /\ refs' = Append(refs, [ref |-> backport_ref(head'),
                                     sha |-> commits[Len(commits)].sha])
            /\ messages' = Append(messages, Msg("display", <<"Backport branch name: ">> \o head'))
            /\ UNCHANGED failure
       ELSE /\ messages' = messages
                 \o <<Msg("display", <<"Backport branch name: ">> \o head'),
                      Msg("error", <<"Failed to push backport commit to '">> \o head'
                                     \o <<"': ">> \o <<"<e>">>)>>
            /\ failure' = "create_git_ref"
            /\ UNCHANGED refs
  /\ UNCHANGED <<command, env, event, target, commits, pulls, label_calls, local_vars>>

BackportCreateGitRef ==
  /\ command = "backport" /\ pc = "create_git_ref"
  /\ head' = backport_branch_name(target, event.number)
  /\ calls' = Append(calls, "create_git_ref")
  /\ \E ok \in BOOLEAN :
       IF ok
       THEN /\ refs' = Append(refs, [ref |-> backport_ref(head'),
                                     sha |-> commits[Len(commits)].sha])
            /\ messages' = Append(messages, Msg("display", <<"Backport branch name: ">> \o head'))
            /\ pc' = "create_pull"
            /\ UNCHANGED failure
       ELSE /\ messages' = messages
                 \o <<Msg("display", <<"Backport branch name: ">> \o head'),
                      Msg("error", <<"Failed to push backport commit to '">> \o head'
                                     \o <<"': ">> \o <<"<e>">>)>>
            /\ pc' = "returned"
            /\ failure' = "create_git_ref"
            /\ UNCHANGED refs
  /\ UNCHANGED <<command, env, event, target, commits, pulls, label_calls, local_vars>>

BackportCreatePull ==
  /\ command = "backport" /\ pc = "create_pull"
  /\ calls' = Append(calls, "create_pull")
  /\ \E ok \in BOOLEAN :
       IF ok
       THEN /\ pulls' = Append(pulls,
                 [title |-> backport_title(target, event.title),
                  body |-> backport_body(event.merge_commit_sha, event.number, event.body),
                  base |-> target,
                  head |-> head])
            /\ pc' = "add_to_labels"
            /\ UNCHANGED failure
       ELSE Raise("create_pull") /\ UNCHANGED pulls
  /\ UNCHANGED <<command, env, event, target, head, messages, commits, refs, label_calls,
                 local_vars>>

BackportAddToLabels ==
  /\ command = "backport" /\ pc = "add_to_labels"
  /\ calls' = Append(calls, "add_to_labels")
  /\ label_calls' = Append(label_calls, backport_labels(event.labels))
  /\ \E ok \in BOOLEAN :
       IF ok
       THEN /\ messages' = Append(messages, Msg("display",
                 <<"Backport workflow finished, PR created: {backport_pr.html_url}">>))
            /\ pc' = "finished"
            /\ UNCHANGED failure
       ELSE Raise("add_to_labels") /\ UNCHANGED messages
  /\ UNCHANGED <<command, env, event, target, head, commits, refs, pulls, local_vars>>

(***************************************************************************)
(* cherry_pick/__init__.py : cmd                                           *)
(***************************************************************************)
cherry_pick_head(base, original_pr_number) ==
  s_backport \o s_dash \o IntToStr(original_pr_number) \o s_dash \o s_to \o s_dash \o base

worktree_path(base) == <<".worktrees/backport-$">> \o base

\* the fragment "[fence]" stands for the three backquotes of the template
error_message(merge_commit_sha, base, branch) ==
  <<"Failed to cherry-pick ">> \o merge_commit_sha
    \o <<"\nTo backport manually, run these commands in your terminal:\n[fence]bash\n">>
    \o <<"# Fetch latest updates from GitHub\ngit fetch\n# Create a new working tree\n">>
    \o <<"git worktree add ">> \o worktree_path(base) \o <<" ">> \o base
    \o <<"\n# Navigate to the new working tree\ncd ">> \o worktree_path(base)
    \o <<"\n# Create a new branch\ngit switch --create ">> \o branch
    \o <<"\n# Cherry-pick the merged commit of this pull request and resolve the conflicts\n">>
    \o <<"git cherry-pick -x --mainline 1 ">> \o merge_commit_sha
    \o <<"\n# Push it to GitHub\ngit push --set-upstream origin ">> \o branch
    \o <<"\n# Go back to the original working tree\ncd ../..\n# Delete the working tree\n">>
    \o <<"git worktree remove ">> \o worktree_path(base)

\* the text that the `with open(GITHUB_OUTPUT, "a")` block appends
output_text(original_pr_number, base, branch, original_labels, original_title, original_body) ==
  (IF original_pr_number # 0
     THEN <<"pr_number", "=">> \o IntToStr(original_pr_number) \o s_nl ELSE <<>>)
  \o (IF Truthy(base) THEN <<"base", "=">> \o base \o s_nl ELSE <<>>)
  \o (IF Truthy(branch) THEN <<"head", "=">> \o branch \o s_nl ELSE <<>>)
  \o (IF Len(original_labels) > 0
        THEN <<"original_labels", "=">>
               \o Join(s_comma, [i \in 1..Len(original_labels) |-> original_labels[i].val])
               \o s_nl
        ELSE <<>>)
  \o (IF Truthy(original_title)
        THEN <<"original_title", "<<">> \o s_EOF \o s_nl \o original_title \o s_nl \o s_EOF \o s_nl
        ELSE <<>>)
  \o (IF Truthy(original_body)
        THEN <<"original_body", "<<">> \o s_EOF \o s_nl \o original_body \o s_nl \o s_EOF \o s_nl
        ELSE <<>>)

\* one git subprocess: the fixed words of its command line, the computed
\* argument, and its exit code
GitCmd(argv, arg, rc) == [argv |-> argv, arg |-> arg, rc |-> rc]

CherryPickCheckCI ==
  /\ command = "cherry_pick" /\ pc = "ci"
  /\ IF ~env.ci
     THEN Report("error", <<"This command is meant to be run in CI, not locally.">>)
     ELSE pc' = "get_event" /\ UNCHANGED messages
  /\ UNCHANGED <<command, env, event, failure, target, head, remote_vars, local_vars>>

CherryPickGetEvent ==
  /\ command = "cherry_pick" /\ pc = "get_event"
  /\ IF ~env.GITHUB_EVENT_PATH
     THEN Raise("GITHUB_EVENT_PATH") /\ UNCHANGED event
     ELSE \E e \in Events : event' = e /\ pc' = "pull_request" /\ UNCHANGED failure
  /\ UNCHANGED <<command, env, target, head, messages, remote_vars, local_vars>>

CherryPickCheckPullRequest ==
  /\ command = "cherry_pick" /\ pc = "pull_request"
  /\ IF ~event.has_pr
     THEN Report("warning", <<"No pull_request found. Skipping backport.">>)
     ELSE pc' = "merged" /\ UNCHANGED messages
  /\ UNCHANGED <<command, env, event, failure, target, head, remote_vars, local_vars>>

CherryPickCheckMerged ==
  /\ command = "cherry_pick" /\ pc = "merged"
  /\ IF ~event.merged \/ ~Truthy(event.merge_commit_sha)
     THEN Report("info", <<"For security reasons, this action should only run on merged PRs.">>)
     ELSE pc' = "find_target" /\ UNCHANGED messages
  /\ UNCHANGED <<command, env, event, failure, target, head, remote_vars, local_vars>>

CherryPickFindTarget ==
  /\ command = "cherry_pick" /\ pc = "find_target"
  /\ LET found == cherry_pick_find_backport_target(event.labels) IN
     IF found = PyNone \/ ~Truthy(found.val)
     THEN /\ Report("info", <<"No backport/<target> label found. Skipping backport.">>)
          /\ UNCHANGED target
     ELSE /\ target' = found.val
          /\ pc' = "token"
          /\ UNCHANGED messages
  /\ UNCHANGED <<command, env, event, failure, head, remote_vars, local_vars>>

CherryPickCheckToken ==
  /\ command = "cherry_pick" /\ pc = "token"
  /\ IF ~env.GITHUB_TOKEN
     THEN /\ messages' = Append(messages, Msg("abort", <<"GITHUB_TOKEN is not set">>))
          /\ pc' = "aborted"
          /\ failure' = "GITHUB_TOKEN"
     ELSE pc' = "clone" /\ UNCHANGED <<messages, failure>>
  /\ UNCHANGED <<command, env, event, target, head, remote_vars, local_vars>>

\* app.subprocess.run(..., check=True): a non-zero exit ends the run
CherryPickRunChecked(here, argv, arg, next) ==
  /\ command = "cherry_pick" /\ pc = here
  /\ \E rc \in {0, 1} :
       /\ git' = Append(git, GitCmd(argv, arg, rc))
       /\ IF rc = 0 THEN pc' = next /\ UNCHANGED failure
          ELSE pc' = "aborted" /\ failure' = argv
  /\ UNCHANGED <<command, env, event, target, messages, remote_vars, output>>

CherryPickClone ==
  CherryPickRunChecked("clone", "git clone", <<"auth_url">>, "config_email") /\ UNCHANGED head

CherryPickConfigEmail ==
  CherryPickRunChecked("config_email", "git config --global user.email",
                       <<"github-actions[bot]@users.noreply.github.com">>, "config_name")
  /\ UNCHANGED head

CherryPickConfigName ==
  CherryPickRunChecked("config_name", "git config --global user.name",
                       <<"github-actions[bot]">>, "switch")
  /\ UNCHANGED head

CherryPickSwitchBase ==
  /\ CherryPickRunChecked("switch", "git switch", target, "switch_c")
  /\ head' = IF pc' = "switch_c" THEN cherry_pick_head(target, event.number) ELSE head

CherryPickSwitchCreate ==
  CherryPickRunChecked("switch_c", "git switch -c", head, "cherry_pick") /\ UNCHANGED head

\* run without check=True: cmd compares the returned exit code with 0
CherryPickCherryPick ==
  /\ command = "cherry_pick" /\ pc = "cherry_pick"
  /\ \E rc \in {0, 1} :
       /\ git' = Append(git, GitCmd("git cherry-pick -x", event.merge_commit_sha, rc))
       /\ pc' = IF rc # 0 THEN "cherry_pick_abort" ELSE "push"
  /\ UNCHANGED <<command, env, event, failure, target, head, messages, remote_vars, output>>

CherryPickAbort ==
  /\ command = "cherry_pick" /\ pc = "cherry_pick_abort"
  /\ pc' = "aborted"
  /\ \E rc \in {0, 1} :
       /\ git' = Append(git, GitCmd("git cherry-pick --abort", <<>>, rc))
       /\ IF rc = 0
          THEN /\ messages' = Append(messages,
                    Msg("abort", error_message(event.merge_commit_sha, target, head)))
               /\ failure' = "git cherry-pick -x"
          ELSE /\ failure' = "git cherry-pick --abort"
               /\ UNCHANGED messages
  /\ UNCHANGED <<command, env, event, target, head, remote_vars, output>>

CherryPickPush ==
  CherryPickRunChecked("push", "git push --set-upstream origin", head, "set_outputs")
  /\ UNCHANGED head

CherryPickSetOutputs ==
  /\ command = "cherry_pick" /\ pc = "set_outputs"
  /\ IF ~env.GITHUB_OUTPUT
     THEN Raise("GITHUB_OUTPUT") /\ UNCHANGED <<output, messages>>
     ELSE /\ output' = output \o output_text(event.number, target, head,
                          cherry_pick_get_non_backport_labels(event.labels),
                          event.title, event.body)
          /\ messages' = Append(messages, Msg("display",
               <<"Cherry-pick PR #">> \o IntToStr(event.number) \o <<" to branch ">> \o head))
          /\ pc' = "finished"
          /\ UNCHANGED failure
  /\ UNCHANGED <<command, env, event, target, head, remote_vars, git>>

(***************************************************************************)
(* Specification.                                                          *)
(***************************************************************************)
Next ==
  \/ BackportCheckCI
  \/ BackportGetEvent
  \/ BackportCheckPullRequest
  \/ BackportCheckMerged
  \/ BackportFindTarget
  \/ BackportGetRepo
  \/ BackportGetBranch
  \/ BackportGetGitRef
  \/ BackportGetGitCommit
  \/ BackportGetCommit
  \/ BackportGetGitTree
  \/ BackportCreateGitCommit
  \/ BackportCreateGitRef
  \/ BackportCreatePull
  \/ BackportAddToLabels
  \/ CherryPickCheckCI
  \/ CherryPickGetEvent
  \/ CherryPickCheckPullRequest
  \/ CherryPickCheckMerged
  \/ CherryPickFindTarget
  \/ CherryPickCheckToken
  \/ CherryPickClone
  \/ CherryPickConfigEmail
  \/ CherryPickConfigName
  \/ CherryPickSwitchBase
  \/ CherryPickSwitchCreate
  \/ CherryPickCherryPick
  \/ CherryPickAbort
  \/ CherryPickPush
  \/ CherryPickSetOutputs

Spec == Init /\ [][Next]_vars

(***************************************************************************)
(* Reference notions used by the properties.                               *)
(***************************************************************************)
IsBackportName(name) ==
  /\ Len(name) >= 9
  /\ SubSeq(name, 1, 9) = <<"b", "a", "c", "k", "p", "o", "r", "t", "/">>

BackportHits(labels) == {i \in 1..Len(labels) : IsBackportName(labels[i].name)}

\* "backport" holds no "/", so what follows the first "/" of a backport name
\* is the name without its first nine characters
ExpectedTarget(labels) ==
  IF BackportHits(labels) = {} THEN PyNone
  ELSE LET i == CHOOSE i \in BackportHits(labels) : \A j \in BackportHits(labels) : i <= j IN
       PyStr(SubSeq(labels[i].name, 10, Len(labels[i].name)))

IsPlainName(label) == Truthy(label.name) /\ ~IsBackportName(label.name)

ExpectedNonBackport(labels) ==
  LET kept == SelectSeq(labels, IsPlainName) IN
  [i \in 1..Len(kept) |-> PyStr(kept[i].name)]

NumberText(n) == CASE n = 7 -> <<"7">> [] n = 42 -> <<"4", "2">> [] OTHER -> <<"?">>

Last(q) == q[Len(q)]

NoRemoteMutation ==
  /\ commits = <<>> /\ refs = <<>> /\ pulls = <<>> /\ label_calls = <<>>
  /\ \A i \in 1..Len(calls) :
       calls[i] \notin {"create_git_commit", "create_git_ref", "create_pull", "add_to_labels"}

NoLocalMutation == git = <<>> /\ output = <<>>

GitRan(argv) == \E i \in 1..Len(git) : git[i].argv = argv

(***************************************************************************)
(* C1: in both commands, an event whose pull request is not merged or has  *)
(* no merge_commit_sha (and, for the API command, whose base.ref is not    *)
(* "main") stops the run before any remote or local mutation: no remote    *)
(* call, no commit, ref, pull request or label, no git subprocess, no      *)
(* output.                                                                 *)
(***************************************************************************)
C1_Ineligible ==
  /\ event.has_pr
  /\ \/ ~event.merged
     \/ event.merge_commit_sha = <<>>
     \/ command = "backport" /\ event.base_ref # <<"m", "a", "i", "n">>

C1_NotMergedShortCircuits ==
  C1_Ineligible =>
    /\ pc \in {"pull_request", "merged", "returned"}
    /\ calls = <<>>
    /\ NoRemoteMutation
    /\ NoLocalMutation

C1_Witness ==
  /\ command = "backport" /\ pc = "returned"
  /\ event.has_pr /\ event.merged /\ event.merge_commit_sha # <<>>
  /\ event.base_ref = <<"d", "e", "v">>
  /\ BackportHits(event.labels) # {}
  /\ Len(messages) = 1

(***************************************************************************)
(* C2: in both modules find_backport_target returns what follows the first *)
(* "/" of the first label whose name starts with "backport/", whatever     *)
(* labels surround it, and None exactly when no name starts with           *)
(* "backport/".                                                            *)
(***************************************************************************)
C2_FindBackportTarget ==
  /\ backport_find_backport_target(event.labels) = ExpectedTarget(event.labels)
  /\ cherry_pick_find_backport_target(event.labels) = ExpectedTarget(event.labels)
  /\ backport_find_backport_target(event.labels) = PyNone <=> BackportHits(event.labels) = {}
  /\ cherry_pick_find_backport_target(event.labels) = PyNone <=> BackportHits(event.labels) = {}
  /\ pc \in {"get_repo", "token"} => PyStr(target) = ExpectedTarget(event.labels)

C2_Witness ==
  /\ pc \in {"get_repo", "token"}
  /\ Len(event.labels) = 2
  /\ event.labels[1].name = <<"b", "a", "c", "k", "p", "o", "r", "t", "/", "r", "3">>
  /\ event.labels[2].name = <<"b", "a", "c", "k", "p", "o", "r", "t", "/", "r", "4">>
  /\ target = <<"r", "3">>

(***************************************************************************)
(* C3 (as claimed): get_non_backport_labels returns exactly the names that *)
(* do not start with "backport/", in order, empty names dropped, and the   *)
(* implementations of the two modules agree.                               *)
(***************************************************************************)
C3_Claim ==
  /\ cherry_pick_get_non_backport_labels(event.labels) = ExpectedNonBackport(event.labels)
  /\ backport_get_non_backport_labels(event.labels) = ExpectedNonBackport(event.labels)
  /\ backport_get_non_backport_labels(event.labels)
       = cherry_pick_get_non_backport_labels(event.labels)

(***************************************************************************)
(* C4 (as claimed): the labels passed to add_to_labels are, each as one    *)
(* label name, the original names that do not start with "backport/"       *)
(* together with "backport" and "bot".                                     *)
(***************************************************************************)
C4_Claim ==
  \A k \in 1..Len(label_calls) :
    LET args == label_calls[k] IN
    /\ \A a \in 1..Len(args) : args[a].type = "str"
    /\ {args[a].val : a \in 1..Len(args)}
         = {ExpectedNonBackport(event.labels)[i].val :
              i \in 1..Len(ExpectedNonBackport(event.labels))}
           \cup {<<"b", "a", "c", "k", "p", "o", "r", "t">>, <<"b", "o", "t">>}

(***************************************************************************)
(* C5 (as claimed): whenever git cherry-pick returns non-zero, the next    *)
(* subprocess is git cherry-pick --abort, the run then fails with a        *)
(* message holding the merge commit SHA and a "git worktree add" snippet,  *)
(* git push never runs and nothing is written to GITHUB_OUTPUT.            *)
(***************************************************************************)
C5_Claim ==
  \A i \in 1..Len(git) :
    (git[i].argv = "git cherry-pick -x" /\ git[i].rc # 0) =>
      /\ ~GitRan("git push --set-upstream origin")
      /\ output = <<>>
      /\ pc \in {"cherry_pick_abort", "aborted"}
      /\ pc = "aborted" =>
           /\ i + 1 = Len(git)
           /\ git[i + 1].argv = "git cherry-pick --abort"
           /\ messages # <<>>
           /\ Last(messages).level = "abort"
           /\ Contains(Last(messages).text, event.merge_commit_sha)
           /\ Contains(Last(messages).text, <<"git worktree add ">>)

(***************************************************************************)
(* C6 (as claimed): a cherry-pick run that fails because it is not in CI   *)
(* or because GITHUB_EVENT_PATH, GITHUB_TOKEN or GITHUB_OUTPUT is missing  *)
(* has run no clone, created no branch and pushed nothing when it fails.   *)
(***************************************************************************)
C6_Claim ==
  (/\ command = "cherry_pick"
   /\ \/ ~env.ci /\ pc = "returned"
      \/ failure \in {"GITHUB_EVENT_PATH", "GITHUB_TOKEN", "GITHUB_OUTPUT"}) =>
    /\ ~GitRan("git clone")
    /\ ~GitRan("git switch -c")
    /\ ~GitRan("git push --set-upstream origin")

(***************************************************************************)
(* C7 (as claimed): a reader that takes a key<<EOF block up to the first   *)
(* line equal to the end marker recovers original_title and original_body  *)
(* exactly, whatever their lines are.                                      *)
(***************************************************************************)
RECURSIVE SplitLines(_)
SplitLines(t) ==
  LET k == FirstIndex(t, "\n") IN
  IF k = 0 THEN <<t>>
  ELSE <<SubSeq(t, 1, k - 1)>> \o SplitLines(SubSeq(t, k + 1, Len(t)))

\* lines q[1..], up to and without the first line equal to marker
RECURSIVE UpToMarker(_, _)
UpToMarker(q, marker) ==
  IF Len(q) = 0 \/ Head(q) = marker THEN <<>>
  ELSE <<Head(q)>> \o UpToMarker(Tail(q), marker)

ReadBlock(text, key) ==
  LET lines == SplitLines(text)
      heads == {i \in 1..Len(lines) :
                  Len(lines[i]) >= 2 /\ lines[i][1] = key /\ lines[i][2] = "<<"}
  IN IF heads = {} THEN <<"<absent>">>
     ELSE LET h == CHOOSE i \in heads : \A j \in heads : i <= j
              marker == SubSeq(lines[h], 3, Len(lines[h]))
          IN Join(<<"\n">>, UpToMarker(SubSeq(lines, h + 1, Len(lines)), marker))

C7_Claim ==
  (command = "cherry_pick" /\ pc = "finished") =>
    /\ event.title # <<>> => ReadBlock(output, "original_title") = event.title
    /\ event.body # <<>> => ReadBlock(output, "original_body") = event.body

(***************************************************************************)
(* C8: in the API command, an eligible event (merged into "main", merge    *)
(* SHA present, first backport label backport/<target>, number n) for      *)
(* which every remote call succeeds creates the ref                        *)
(* refs/backport/<target>/backport-<n>-to-<target> on the new commit,      *)
(* whose only parent is the target branch head and whose tree is the merge *)
(* commit's tree, and opens a pull request titled                          *)
(* "[Backport <target>] <title>" with base <target> and, as head, the new  *)
(* ref (its name after "refs/"); the clone-based command names its branch  *)
(* backport-<n>-to-<target>.                                               *)
(***************************************************************************)
C8_Eligible ==
  /\ event.has_pr /\ event.merged /\ event.merge_commit_sha # <<>>
  /\ event.base_ref = <<"m", "a", "i", "n">>
  /\ ExpectedTarget(event.labels) # PyNone
  /\ ExpectedTarget(event.labels).val # <<>>

C8_FlatName ==
  <<"b", "a", "c", "k", "p", "o", "r", "t", "-">> \o NumberText(event.number)
    \o <<"-", "t", "o", "-">> \o ExpectedTarget(event.labels).val

C8_ApiName ==
  <<"b", "a", "c", "k", "p", "o", "r", "t", "/">> \o ExpectedTarget(event.labels).val
    \o <<"/">> \o C8_FlatName

C8_BackportRefAndPull ==
  /\ (command = "backport" /\ C8_Eligible /\ pc \in {"returned", "raised"}) =>
       failure # "none"
  /\ (command = "backport" /\ pc = "finished") =>
       C8_Eligible /\ Len(commits) = 1 /\ Len(refs) = 1 /\ Len(pulls) = 1
  /\ (command = "backport" /\ refs # <<>>) =>
       /\ refs[1].ref = <<"r", "e", "f", "s", "/">> \o C8_ApiName
       /\ refs[1].sha = commits[1].sha
       /\ commits[1].sha = new_commit_sha
       /\ commits[1].parents = <<target_head_sha(ExpectedTarget(event.labels).val)>>
       /\ commits[1].tree = tree_sha(event.merge_commit_sha)
  /\ (command = "backport" /\ pulls # <<>>) =>
       /\ pulls[1].title = <<"[Backport ">> \o ExpectedTarget(event.labels).val
                             \o <<"] ">> \o event.title
       /\ pulls[1].base = ExpectedTarget(event.labels).val
       /\ pulls[1].head = C8_ApiName
       /\ <<"r", "e", "f", "s", "/">> \o pulls[1].head = refs[1].ref
  /\ \A i \in 1..Len(git) :
       git[i].argv \in {"git switch -c", "git push --set-upstream origin"} =>
         git[i].arg = C8_FlatName

C8_Witness ==
  /\ command = "backport" /\ pc = "finished"
  /\ event.number = 42
  /\ Len(event.labels) = 2
  /\ event.labels[1].name = <<"b", "u", "g">>
  /\ refs = <<[ref |-> <<"r", "e", "f", "s", "/", "b", "a", "c", "k", "p", "o", "r", "t", "/",
                         "r", "3", "/", "b", "a", "c", "k", "p", "o", "r", "t", "-",
                         "4", "2", "-", "t", "o", "-", "r", "3">>,
               sha |-> new_commit_sha]>>
  /\ Len(pulls) = 1

(***************************************************************************)
(* C9 (as claimed): in the API command a failed lookup of the target       *)
(* branch, its ref, its head commit, the merge commit or its tree ends the *)
(* run with an error message reported by the command, with no remote       *)
(* mutation performed.                                                     *)
(***************************************************************************)
C9_Claim ==
  (/\ command = "backport"
   /\ failure \in {"get_branch", "get_git_ref", "get_git_commit", "get_commit",
                   "get_git_tree"}) =>
    /\ messages # <<>>
    /\ Last(messages).level = "error"
    /\ NoRemoteMutation

(***************************************************************************)
(* C10: in every run of the API command, whatever remote calls fail, at    *)
(* most one commit, one ref and one pull request are created, in that      *)
(* order (a pull request only with the ref, a ref only with the commit,    *)
(* labels only with the pull request); no remote call is made twice and    *)
(* nothing created is removed; a failed ref creation ends the run with the *)
(* commit but no ref and no pull request, a failed pull-request creation   *)
(* with the commit and the ref but no pull request.                        *)
(***************************************************************************)
C10_Ordered ==
  command = "backport" =>
    /\ Len(commits) <= 1 /\ Len(refs) <= 1 /\ Len(pulls) <= 1 /\ Len(label_calls) <= 1
    /\ pulls # <<>> => refs # <<>>
    /\ refs # <<>> => commits # <<>>
    /\ label_calls # <<>> => pulls # <<>>
    /\ \A i, j \in 1..Len(calls) : calls[i] = calls[j] => i = j
    /\ failure = "create_git_ref" =>
         pc = "returned" /\ Len(commits) = 1 /\ refs = <<>> /\ pulls = <<>>
    /\ failure = "create_pull" =>
         pc = "raised" /\ Len(commits) = 1 /\ Len(refs) = 1 /\ pulls = <<>>
    /\ failure # "none" => pc \in {"returned", "raised"}

IsPrefix(q, r) == Len(q) <= Len(r) /\ SubSeq(r, 1, Len(q)) = q

C10_NoRollback ==
  /\ IsPrefix(commits, commits') /\ IsPrefix(refs, refs') /\ IsPrefix(pulls, pulls')
  /\ IsPrefix(calls, calls')
  /\ pc \in {"returned", "raised", "finished"} => UNCHANGED vars

C10_AtMostOnceInOrder == []C10_Ordered /\ [][C10_NoRollback]_vars

C10_Witness ==
  /\ command = "backport" /\ failure = "create_git_ref" /\ pc = "returned"
  /\ Len(commits) = 1 /\ refs = <<>> /\ pulls = <<>>
  /\ calls[Len(calls)] = "create_git_ref"

====
